---- MODULE Spec2Model ----
(***************************************************************************)
(* Authentication and session lifecycle of the todo backend:               *)
(*   backend/app/security.py            password hashing, JWT mint/decode  *)
(*   backend/app/services/auth_service.py   AuthService operations         *)
(*   backend/app/dependencies.py        get_current_user                   *)
(*   backend/app/models/{user,session}.py   rows and unique constraints    *)
(* Time is counted in minutes.  Strings that the code trims or lower-cases *)
(* are sequences of one-character strings; passwords are plain strings.    *)
(***************************************************************************)
EXTENDS Integers, Sequences, FiniteSets, TLC

VARIABLES users, sessions, now, ticks, nextUid, nextSid, ret, inflight, steps,
          tasks, nextTid, repo

vars == <<users, sessions, now, ticks, nextUid, nextSid, ret, inflight, steps,
          tasks, nextTid, repo>>

Nil == "nil"

(* typed absent values: TLC compares only like with like *)
NoId == 0
NoStr == <<>>
NoTime == -1

(* ------------------------------ bounds -------------------------------- *)
MaxUsers == 2
MaxSessions == 2
MaxTicks == 1
MaxInflight == 2
MaxSteps == 4
MaxTasks == 2
MaxRepoTasks == 3

(* ------------- settings (config.py) and fixed lifetimes --------------- *)
access_token_expire_minutes == 10080
access_token_expire_minutes_remember == 43200
verification_token_expire_hours == 24

(* Settings.environment, its default *)
environment == "development"
MinutesPerDay == 24 * 60

(* ------------------------------ inputs -------------------------------- *)
EmailInputs ==
    { <<"a", "@", "x">>, <<" ", "A", "@", "x", " ">>, <<"b", "@", "x">>, <<"a", "x">> }

PasswordInputs == { "short", "password123", "newpassword456" }

NameInputs == { <<"A", "l">>, <<" ", "A", " ">> }

ClientInputs == { [ip |-> "10.0.0.1", ua |-> "Mozilla"] }

(* full_name=None of update_profile, apart from every string *)
NoName == <<"None">>

(* the optional arguments of update_profile; Nil is None *)
ProfileNameInputs == { NoName, <<" ", "B", "o", " ">>, <<" ", "A", " ">> }

AvatarInputs == { Nil, "https://x/a.png" }

TimezoneInputs == { Nil, "America/New_York" }

LanguageInputs == { Nil, "en-US" }

(* the requests made: nothing provided, one field provided, or all four *)
ProfileInputs ==
    { p \in [full_name : ProfileNameInputs, avatar_url : AvatarInputs,
             timezone : TimezoneInputs, language : LanguageInputs] :
        LET given == (IF p.full_name # NoName THEN 1 ELSE 0)
                       + (IF p.avatar_url # Nil THEN 1 ELSE 0)
                       + (IF p.timezone # Nil THEN 1 ELSE 0)
                       + (IF p.language # Nil THEN 1 ELSE 0)
        IN  given \in {0, 1, 4} }

TickSteps ==
    { MinutesPerDay + 1, access_token_expire_minutes + 1,
      access_token_expire_minutes_remember + 1 }

(* ------------------- str.lower() and str.strip() ---------------------- *)
LowerChar(c) ==
    CASE c = "A" -> "a"
      [] c = "B" -> "b"
      [] OTHER -> c

lower(s) == [i \in 1..Len(s) |-> LowerChar(s[i])]

IsSpace(c) == c = " "

RECURSIVE lstrip(_)
lstrip(s) == IF s # <<>> /\ IsSpace(Head(s)) THEN lstrip(Tail(s)) ELSE s

RECURSIVE rstrip(_)
rstrip(s) ==
    IF s # <<>> /\ IsSpace(s[Len(s)]) THEN rstrip(SubSeq(s, 1, Len(s) - 1)) ELSE s

strip(s) == lstrip(rstrip(s))

Contains(s, c) == \E i \in 1..Len(s) : s[i] = c

(* a mutant: the email is trimmed but its case is kept *)
normalize_email_keepcase(email) == strip(email)

(* email.lower().strip() *)
normalize_email(email) == strip(lower(email))

(* ------------------- str(uuid) and UUID(str) -------------------------- *)
str_uuid(id) == <<"uuid", id>>

(* UUID(s): the id, or Nil where the code catches ValueError *)
parse_uuid(s) == IF Len(s) = 2 /\ s[1] = "uuid" THEN s[2] ELSE NoId

(* --------------------- bcrypt (security.py) --------------------------- *)
(* The salt bcrypt.gensalt draws.  No operation reads it back (checkpw    *)
(* re-derives the digest from it), so one value stands for all of them.   *)
Salts == { "salt" }

(* bcrypt reads at most this many bytes of a password *)
BcryptMaxBytes == 72

(* What the installed bcrypt package does with a longer password: before  *)
(* 5.0 it cuts the password, from 5.0 it raises ValueError.               *)
BcryptBuilds == { "truncates", "raises" }

(* no digest: hashpw raised *)
NoHash == [plain |-> Nil, salt |-> Nil]

(* bcrypt.hashpw: the digest is a function of the salt and of the bytes   *)
(* bcrypt reads, and of nothing else                                      *)
bcrypt_hashpw(build, password, salt) ==
    IF Len(password) <= BcryptMaxBytes
    THEN [plain |-> password, salt |-> salt]
    ELSE IF build = "truncates"
    THEN [plain |-> SubSeq(password, 1, BcryptMaxBytes), salt |-> salt]
    ELSE NoHash

(* bcrypt.checkpw: hashes the password with the digest's salt and compares *)
bcrypt_checkpw(build, password, hashed_password) ==
    LET again == bcrypt_hashpw(build, password, hashed_password.salt) IN
    IF again = NoHash THEN "ValueError"
    ELSE IF again = hashed_password THEN "True" ELSE "False"

(* The passwords of PasswordInputs are within bcrypt's limit, where the   *)
(* builds agree.                                                          *)
hash_password(password, salt) == bcrypt_hashpw("truncates", password, salt)

verify_password(plain_password, hashed_password) ==
    bcrypt_checkpw("truncates", plain_password, hashed_password) = "True"

(* the salts bcrypt.gensalt draws in a row: 16 random bytes each, taken   *)
(* as never drawn twice                                                   *)
bcrypt_gensalt == << "salt", "salt1", "salt2", "salt3", "salt4", "salt5" >>

(* passwords up to, at and beyond bcrypt's limit; the last two share      *)
(* their first 72 bytes                                                   *)
HashInputs ==
    { "password123", "newpassword456",
      "aaaaaaaaaaaaaaaaaaaaaaaaaaaaaaaaaaaaaaaaaaaaaaaaaaaaaaaaaaaaaaaaaaaaaaaa",
      "aaaaaaaaaaaaaaaaaaaaaaaaaaaaaaaaaaaaaaaaaaaaaaaaaaaaaaaaaaaaaaaaaaaaaaaab",
      "aaaaaaaaaaaaaaaaaaaaaaaaaaaaaaaaaaaaaaaaaaaaaaaaaaaaaaaaaaaaaaaaaaaaaaaac" }

(* --------------------- JWT (security.py) ------------------------------ *)
(* A claim set: the keys a caller may put into `data` plus the standard   *)
(* ones; Nil marks an absent key.  `signed` is the HMAC check.            *)
EmptyData ==
    [sub |-> NoStr, email |-> NoStr, type |-> Nil, exp |-> NoTime, iat |-> NoTime]

(* a string that is no JWT of this server *)
Garbage == [sub |-> NoStr, email |-> NoStr, type |-> Nil, exp |-> NoTime,
            iat |-> NoTime, signed |-> FALSE]

(* no token at all: a missing cookie, an absent return value *)
NoToken == [sub |-> NoStr, email |-> NoStr, type |-> "none", exp |-> NoTime,
            iat |-> NoTime, signed |-> FALSE]

(* decode_access_token returning None *)
NoPayload == [sub |-> NoStr, email |-> NoStr, type |-> "invalid", exp |-> NoTime,
              iat |-> NoTime]

(* to_encode = data.copy(); to_encode.update({exp, iat, "type": "access"}) *)
create_access_token(data, remember_me, t) ==
    LET expires_delta == IF remember_me THEN access_token_expire_minutes_remember
                         ELSE access_token_expire_minutes
    IN  [sub |-> data.sub, email |-> data.email,
         type |-> "access",
         exp |-> t + expires_delta,
         iat |-> t, signed |-> TRUE]

(* jwt.decode: the payload, or NoPayload on a bad signature or exp < now *)
decode_access_token(token, t) ==
    IF ~token.signed THEN NoPayload
    ELSE IF token.exp < t THEN NoPayload
    ELSE [sub |-> token.sub, email |-> token.email, type |-> token.type,
          exp |-> token.exp, iat |-> token.iat]

(* --------------------------- the store -------------------------------- *)
get_user_by_id(us, user_id) == { u \in us : u.id = user_id }

(* a mutant: the lookup compares the email as it was given *)
get_user_by_email_raw(us, email) ==
    { u \in us : u.email = email }

get_user_by_email(us, email) ==
    LET e == normalize_email(email) IN { u \in us : u.email = e }

session_by_token(ss, token) == { s \in ss : s.token = token }

session_by_refresh_token(ss, token) == { s \in ss : s.refresh_token = token }

(* unique=True on users.email *)
UserInsertOk(us, user) == \A u \in us : u.email # user.email

(* a mutant: the store accepts duplicate tokens *)
SessionWriteOk_off(ss, row) == TRUE

(* unique=True on sessions.token and sessions.refresh_token *)
SessionWriteOk(ss, row) ==
    \A s \in ss : s.id # row.id =>
        s.token # row.token /\ s.refresh_token # row.refresh_token

(* --------------------------- results ---------------------------------- *)
NoRet == [op |-> "init", status |-> "ok", msg |-> Nil, email |-> NoStr,
          password |-> Nil, token |-> NoToken, uid |-> NoId, access |-> NoToken,
          refresh |-> NoToken, hashed |-> NoHash, plain |-> Nil, build |-> Nil,
          tid |-> NoId]

Ok(op) == [NoRet EXCEPT !.op = op]

(* an operation's outcome: the rows after it and what it returned *)
Out(us, ss, r) == [users |-> us, sessions |-> ss, ret |-> r]

(* InMemoryRepository.__init__ with no tasks.json: no task, next_id 1;  *)
(* `file` is what _save wrote last                                       *)
NoFile == [next_id |-> 0, tasks |-> <<>>]

EmptyRepo == [tasks |-> {}, next_id |-> 1, file |-> NoFile]

Init ==
    /\ users = {}
    /\ sessions = {}
    /\ now = 0
    /\ ticks = 0
    /\ nextUid = 1
    /\ nextSid = 1
    /\ ret = NoRet
    /\ inflight = {}
    /\ steps = 0
    /\ tasks = {}
    /\ nextTid = 1
    /\ repo = EmptyRepo

(* ---------------------- AuthService.signup ---------------------------- *)
(* a mutant: the password is measured before the email is looked at *)
signup_validate_password_first(email, password, full_name) ==
    LET e == normalize_email(email) IN
    IF Len(password) < 8 THEN "Password must be at least 8 characters"
    ELSE IF e = <<>> \/ ~Contains(e, "@") THEN "Invalid email format"
    ELSE IF full_name = <<>> \/ Len(strip(full_name)) < 2
         THEN "Full name must be at least 2 characters"
    ELSE Nil

(* lines 52-63: the validations; Nil when the input passes *)
signup_validate(email, password, full_name) ==
    LET e == normalize_email(email) IN
    IF e = <<>> \/ ~Contains(e, "@") THEN "Invalid email format"
    ELSE IF Len(password) < 8 THEN "Password must be at least 8 characters"
    ELSE IF full_name = <<>> \/ Len(strip(full_name)) < 2
         THEN "Full name must be at least 2 characters"
    ELSE Nil

new_user(id, email, password, full_name, salt) ==
    [id |-> id, email |-> normalize_email(email),
     hashed_password |-> hash_password(password, salt),
     full_name |-> strip(full_name), email_verified |-> FALSE,
     avatar_url |-> Nil, timezone |-> Nil, language |-> Nil]

(* a mutant: the commit ignores the unique constraint on users.email *)
signup_commit_nounique(us, user, r) ==
    Out(us \cup {user}, sessions, [r EXCEPT !.uid = user.id])

(* lines 84-93: db.add(user); commit; IntegrityError -> ConflictError *)
signup_commit(us, user, r) ==
    IF UserInsertOk(us, user)
    THEN Out(us \cup {user}, sessions, [r EXCEPT !.uid = user.id])
    ELSE Out(us, sessions,
             [r EXCEPT !.status = "ConflictError", !.msg = "Email already registered"])

(* lines 65-71: the existence pre-check *)
signup_exists(us, email) ==
    LET e == normalize_email(email) IN \E u \in us : u.email = e

signup(email, password, full_name, salt) ==
    LET r == [Ok("signup") EXCEPT !.email = email]
        bad == signup_validate(email, password, full_name)
    IN  IF bad # Nil
        THEN Out(users, sessions, [r EXCEPT !.status = "ValidationError", !.msg = bad])
        ELSE IF signup_exists(users, email)
        THEN Out(users, sessions,
                 [r EXCEPT !.status = "ConflictError", !.msg = "Email already registered"])
        ELSE signup_commit(users, new_user(nextUid, email, password, full_name, salt), r)

(* ---------------------- AuthService.signin ---------------------------- *)
(* a mutant: the Session lives 7 days whatever remember_me says *)
session_expires_delta_short(remember_me) == access_token_expire_minutes

(* lines 146-150: the lifetime of the Session row *)
session_expires_delta(remember_me) ==
    IF remember_me THEN access_token_expire_minutes_remember
    ELSE access_token_expire_minutes

(* a mutant: every Session is stored under the first user *)
new_session_first_user(id, user, access_token, refresh_token, expires_at, client, t) ==
    [id |-> id, user_id |-> 1, token |-> access_token,
     refresh_token |-> refresh_token, expires_at |-> expires_at,
     ip_address |-> client.ip, user_agent |-> client.ua, created_at |-> t]

(* lines 154-162 *)
new_session(id, user, access_token, refresh_token, expires_at, client, t) ==
    [id |-> id, user_id |-> user.id, token |-> access_token,
     refresh_token |-> refresh_token, expires_at |-> expires_at,
     ip_address |-> client.ip, user_agent |-> client.ua, created_at |-> t]

(* a mutant: an unknown email is reported apart from a wrong password *)
signin_unknown_leaky(r) ==
    [r EXCEPT !.status = "UnauthorizedError", !.msg = "User not found"]

(* lines 127-128 *)
signin_unknown(r) ==
    [r EXCEPT !.status = "UnauthorizedError", !.msg = "Invalid email or password"]

signin(email, password, remember_me, client) ==
    LET r == [Ok("signin") EXCEPT !.email = email]
        found == get_user_by_email(users, email)
    IN  IF found = {} THEN Out(users, sessions, signin_unknown(r))
        ELSE
        LET user == CHOOSE u \in found : TRUE IN
        IF ~verify_password(password, user.hashed_password)
        THEN Out(users, sessions,
                 [r EXCEPT !.status = "UnauthorizedError",
                           !.msg = "Invalid email or password"])
        ELSE
        LET access_token ==
                create_access_token(
                    [EmptyData EXCEPT !.sub = str_uuid(user.id), !.email = user.email],
                    remember_me, now)
            refresh_token ==
                create_access_token(
                    [EmptyData EXCEPT !.sub = str_uuid(user.id), !.type = "refresh"],
                    TRUE, now)
            expires_delta == session_expires_delta(remember_me)
            session == new_session(nextSid, user, access_token, refresh_token,
                                   now + expires_delta, client, now)
        IN  IF SessionWriteOk(sessions, session)
            THEN Out(users, sessions \cup {session},
                     [r EXCEPT !.uid = user.id, !.access = access_token,
                               !.refresh = refresh_token])
            ELSE Out(users, sessions,
                     [r EXCEPT !.status = "IntegrityError", !.uid = user.id])

(* ---------------------- AuthService.signout --------------------------- *)
(* a mutant: the Session is reported deleted and left in the store *)
signout_keep(token) ==
    LET r == [Ok("signout") EXCEPT !.token = token]
        found == session_by_token(sessions, token)
    IN  IF found # {}
        THEN Out(users, sessions, r)
        ELSE Out(users, sessions, [r EXCEPT !.status = "false"])

signout(token) ==
    LET r == [Ok("signout") EXCEPT !.token = token]
        found == session_by_token(sessions, token)
    IN  IF found # {}
        THEN Out(users, sessions \ found, r)
        ELSE Out(users, sessions, [r EXCEPT !.status = "false"])

(* ---------------- AuthService.refresh_access_token -------------------- *)
refresh_access_token(refresh_token) ==
    LET r == [Ok("refresh_access_token") EXCEPT !.token = refresh_token]
        bad(msg) == Out(users, sessions,
                        [r EXCEPT !.status = "UnauthorizedError", !.msg = msg])
        payload == decode_access_token(refresh_token, now)
    IN  IF payload = NoPayload THEN bad("Invalid refresh token")
        ELSE IF payload.type # "refresh" THEN bad("Invalid refresh token")
        ELSE IF payload.sub = NoStr THEN bad("Invalid refresh token")
        ELSE IF parse_uuid(payload.sub) = NoId THEN bad("Invalid refresh token")
        ELSE
        LET user_id == parse_uuid(payload.sub)
            found == session_by_refresh_token(sessions, refresh_token)
        IN  IF found = {} THEN bad("Session not found")
            ELSE
            LET session == CHOOSE s \in found : TRUE IN
            IF session.expires_at < now
            THEN Out(users, sessions \ {session},
                     [r EXCEPT !.status = "UnauthorizedError",
                               !.msg = "Session expired"])
            ELSE IF get_user_by_id(users, user_id) = {} THEN bad("User not found")
            ELSE
            LET user == CHOOSE u \in get_user_by_id(users, user_id) : TRUE
                new_access_token ==
                    create_access_token(
                        [EmptyData EXCEPT !.sub = str_uuid(user.id), !.email = user.email],
                        TRUE, now)
                new_refresh_token ==
                    create_access_token(
                        [EmptyData EXCEPT !.sub = str_uuid(user.id), !.type = "refresh"],
                        TRUE, now)
                row == [session EXCEPT
                          !.token = new_access_token,
                          !.refresh_token = new_refresh_token,
                          !.expires_at = now + access_token_expire_minutes_remember]
            IN  IF SessionWriteOk(sessions, row)
                THEN Out(users, (sessions \ {session}) \cup {row},
                         [r EXCEPT !.uid = user.id, !.access = new_access_token,
                                   !.refresh = new_refresh_token])
                ELSE Out(users, sessions,
                         [r EXCEPT !.status = "IntegrityError", !.uid = user.id])

(* -------------------- AuthService.update_profile ---------------------- *)
(* a mutant: every field is assigned, an omitted one becomes None *)
update_profile_overwrite(user_id, full_name, avatar_url, timezone, language) ==
    LET r == [Ok("update_profile") EXCEPT !.uid = user_id]
        found == get_user_by_id(users, user_id)
    IN  IF found = {}
        THEN Out(users, sessions,
                 [r EXCEPT !.status = "NotFoundError", !.msg = "User not found"])
        ELSE
        LET user == CHOOSE u \in found : TRUE IN
        IF full_name # NoName /\ Len(strip(full_name)) < 2
        THEN Out(users, sessions,
                 [r EXCEPT !.status = "ValidationError",
                           !.msg = "Full name must be at least 2 characters"])
        ELSE
        LET row == [user EXCEPT
                      !.full_name = IF full_name # NoName THEN strip(full_name) ELSE @,
                      !.avatar_url = avatar_url,
                      !.timezone = timezone,
                      !.language = language]
        IN  Out((users \ {user}) \cup {row}, sessions, r)

update_profile(user_id, full_name, avatar_url, timezone, language) ==
    LET r == [Ok("update_profile") EXCEPT !.uid = user_id]
        found == get_user_by_id(users, user_id)
    IN  IF found = {}
        THEN Out(users, sessions,
                 [r EXCEPT !.status = "NotFoundError", !.msg = "User not found"])
        ELSE
        LET user == CHOOSE u \in found : TRUE IN
        IF full_name # NoName /\ Len(strip(full_name)) < 2
        THEN Out(users, sessions,
                 [r EXCEPT !.status = "ValidationError",
                           !.msg = "Full name must be at least 2 characters"])
        ELSE
        LET row == [user EXCEPT
                      !.full_name = IF full_name # NoName THEN strip(full_name) ELSE @,
                      !.avatar_url = IF avatar_url # Nil THEN avatar_url ELSE @,
                      !.timezone = IF timezone # Nil THEN timezone ELSE @,
                      !.language = IF language # Nil THEN language ELSE @]
        IN  Out((users \ {user}) \cup {row}, sessions, r)

(* ---------------- change_password / reset_password -------------------- *)
(* a mutant: the Sessions of every user are deleted *)
delete_user_sessions_all(ss, user_id) == {}

(* a mutant: the password is stored and the sessions are left alone *)
delete_user_sessions_skip(ss, user_id) == ss

(* lines 315-323 and 594-599: delete every Session of the user *)
delete_user_sessions(ss, user_id) == { s \in ss : s.user_id # user_id }

(* a mutant: setting a password also marks the email as unverified *)
set_password_unverify(us, user, new_password, salt) ==
    (us \ {user})
        \cup { [user EXCEPT !.hashed_password = hash_password(new_password, salt),
                             !.email_verified = FALSE] }

set_password(us, user, new_password, salt) ==
    (us \ {user})
        \cup { [user EXCEPT !.hashed_password = hash_password(new_password, salt)] }

(* a mutant: the new password is validated before the current one is checked *)
change_password_validate_first(user_id, current_password, new_password, salt) ==
    LET r == [Ok("change_password") EXCEPT !.uid = user_id,
                                           !.password = new_password]
        found == get_user_by_id(users, user_id)
    IN  IF found = {}
        THEN Out(users, sessions,
                 [r EXCEPT !.status = "NotFoundError", !.msg = "User not found"])
        ELSE
        LET user == CHOOSE u \in found : TRUE IN
        IF Len(new_password) < 8
        THEN Out(users, sessions,
                 [r EXCEPT !.status = "ValidationError",
                           !.msg = "Password must be at least 8 characters"])
        ELSE IF ~verify_password(current_password, user.hashed_password)
        THEN Out(users, sessions,
                 [r EXCEPT !.status = "UnauthorizedError",
                           !.msg = "Current password is incorrect"])
        ELSE Out(set_password(users, user, new_password, salt),
                 delete_user_sessions(sessions, user_id), r)

change_password(user_id, current_password, new_password, salt) ==
    LET r == [Ok("change_password") EXCEPT !.uid = user_id,
                                           !.password = new_password]
        found == get_user_by_id(users, user_id)
    IN  IF found = {}
        THEN Out(users, sessions,
                 [r EXCEPT !.status = "NotFoundError", !.msg = "User not found"])
        ELSE
        LET user == CHOOSE u \in found : TRUE IN
        IF ~verify_password(current_password, user.hashed_password)
        THEN Out(users, sessions,
                 [r EXCEPT !.status = "UnauthorizedError",
                           !.msg = "Current password is incorrect"])
        ELSE IF Len(new_password) < 8
        THEN Out(users, sessions,
                 [r EXCEPT !.status = "ValidationError",
                           !.msg = "Password must be at least 8 characters"])
        ELSE Out(set_password(users, user, new_password, salt),
                 delete_user_sessions(sessions, user_id), r)

(* ------------- create_verification_token / verify_token --------------- *)
(* the caller's exp is now + 24 h; create_access_token is given it in data *)
create_verification_token(user_id, token_type) ==
    create_access_token(
        [EmptyData EXCEPT !.sub = str_uuid(user_id), !.type = token_type,
                          !.exp = now + verification_token_expire_hours * 60],
        FALSE, now)

(* a mutant: the purpose of the token is not compared *)
verify_token_anytype(token, expected_type) ==
    LET payload == decode_access_token(token, now) IN
    IF payload = NoPayload THEN NoId
    ELSE IF payload.sub = NoStr THEN NoId
    ELSE parse_uuid(payload.sub)

(* the user id, or NoId for None *)
verify_token(token, expected_type) ==
    LET payload == decode_access_token(token, now) IN
    IF payload = NoPayload THEN NoId
    ELSE IF payload.type # expected_type THEN NoId
    ELSE IF payload.sub = NoStr THEN NoId
    ELSE parse_uuid(payload.sub)

send_verification_email(user_id) ==
    LET token == create_verification_token(user_id, "verify") IN
    Out(users, sessions,
        [Ok("send_verification_email") EXCEPT !.uid = user_id, !.token = token])

verify_email_with_token(token) ==
    LET r == [Ok("verify_email_with_token") EXCEPT !.token = token]
        user_id == verify_token(token, "verify")
    IN  IF user_id = NoId
        THEN Out(users, sessions,
                 [r EXCEPT !.status = "UnauthorizedError",
                           !.msg = "Invalid or expired verification token"])
        ELSE IF get_user_by_id(users, user_id) = {}
        THEN Out(users, sessions,
                 [r EXCEPT !.status = "NotFoundError", !.msg = "User not found"])
        ELSE
        LET user == CHOOSE u \in get_user_by_id(users, user_id) : TRUE IN
        IF user.email_verified
        THEN Out(users, sessions, [r EXCEPT !.uid = user.id])
        ELSE Out((users \ {user}) \cup {[user EXCEPT !.email_verified = TRUE]},
                 sessions, [r EXCEPT !.uid = user.id])

(* a mutant: verifying the email also signs the user out everywhere *)
verify_email_revokes(user_id) ==
    LET r == [Ok("verify_email") EXCEPT !.uid = user_id]
        found == get_user_by_id(users, user_id)
    IN  IF found = {}
        THEN Out(users, sessions,
                 [r EXCEPT !.status = "NotFoundError", !.msg = "User not found"])
        ELSE LET user == CHOOSE u \in found : TRUE IN
             Out((users \ {user}) \cup {[user EXCEPT !.email_verified = TRUE]},
                 delete_user_sessions(sessions, user_id), r)

(* AuthService.verify_email(user_id) *)
verify_email(user_id) ==
    LET r == [Ok("verify_email") EXCEPT !.uid = user_id]
        found == get_user_by_id(users, user_id)
    IN  IF found = {}
        THEN Out(users, sessions,
                 [r EXCEPT !.status = "NotFoundError", !.msg = "User not found"])
        ELSE LET user == CHOOSE u \in found : TRUE IN
             Out((users \ {user}) \cup {[user EXCEPT !.email_verified = TRUE]},
                 sessions, r)

forgot_password(email) ==
    LET r == [Ok("forgot_password") EXCEPT !.email = email]
        found == get_user_by_email(users, normalize_email(email))
    IN  IF found = {} THEN Out(users, sessions, r)
        ELSE LET user == CHOOSE u \in found : TRUE
                 reset_token == create_verification_token(user.id, "reset")
             IN  Out(users, sessions,
                     [r EXCEPT !.uid = user.id, !.token = reset_token])

(* POST /forgot-password for a request body that passed validation: the  *)
(* response's status code and JSON body; reset_token = NoToken is a body *)
(* without that key                                                      *)
forgot_password_endpoint(email) ==
    LET reset_token == forgot_password(email).ret.token
        message == "If an account exists with this email, a password reset link has been sent."
    IN  [status_code |-> 200, message |-> message,
         reset_token |-> IF reset_token # NoToken /\ environment = "development"
                         THEN reset_token ELSE NoToken]

(* a mutant: the token is verified before the new password is measured *)
reset_password_token_first(token, new_password, salt) ==
    LET r == [Ok("reset_password") EXCEPT !.token = token,
                                          !.password = new_password]
        user_id == verify_token(token, "reset")
    IN  IF user_id = NoId
        THEN Out(users, sessions,
                 [r EXCEPT !.status = "UnauthorizedError",
                           !.msg = "Invalid or expired reset token"])
        ELSE IF Len(new_password) < 8
        THEN Out(users, sessions,
                 [r EXCEPT !.status = "ValidationError",
                           !.msg = "Password must be at least 8 characters"])
        ELSE IF get_user_by_id(users, user_id) = {}
        THEN Out(users, sessions,
                 [r EXCEPT !.status = "NotFoundError", !.msg = "User not found"])
        ELSE
        LET user == CHOOSE u \in get_user_by_id(users, user_id) : TRUE IN
        Out(set_password(users, user, new_password, salt),
            delete_user_sessions(sessions, user_id),
            [r EXCEPT !.uid = user.id])

reset_password(token, new_password, salt) ==
    LET r == [Ok("reset_password") EXCEPT !.token = token,
                                          !.password = new_password]
    IN  IF Len(new_password) < 8
        THEN Out(users, sessions,
                 [r EXCEPT !.status = "ValidationError",
                           !.msg = "Password must be at least 8 characters"])
        ELSE
        LET user_id == verify_token(token, "reset") IN
        IF user_id = NoId
        THEN Out(users, sessions,
                 [r EXCEPT !.status = "UnauthorizedError",
                           !.msg = "Invalid or expired reset token"])
        ELSE IF get_user_by_id(users, user_id) = {}
        THEN Out(users, sessions,
                 [r EXCEPT !.status = "NotFoundError", !.msg = "User not found"])
        ELSE
        LET user == CHOOSE u \in get_user_by_id(users, user_id) : TRUE IN
        Out(set_password(users, user, new_password, salt),
            delete_user_sessions(sessions, user_id),
            [r EXCEPT !.uid = user.id])

(* ------------------ dependencies.get_current_user --------------------- *)
(* the cookie's token: NoToken when the request carries none *)
get_current_user(token) ==
    LET r == [Ok("get_current_user") EXCEPT !.token = token]
        bad(msg) == Out(users, sessions, [r EXCEPT !.status = "401", !.msg = msg])
    IN  IF token = NoToken THEN bad("Not authenticated - no token provided")
        ELSE
        LET payload == decode_access_token(token, now) IN
        IF payload = NoPayload THEN bad("Invalid or expired authentication token")
        ELSE IF payload.sub = NoStr THEN bad("Invalid token - missing subject")
        ELSE IF parse_uuid(payload.sub) = NoId THEN bad("Invalid user ID format in token")
        ELSE IF get_user_by_id(users, parse_uuid(payload.sub)) = {}
        THEN bad("User not found")
        ELSE Out(users, sessions, [r EXCEPT !.uid = parse_uuid(payload.sub)])

(* ------------- DELETE of a users row (sessions.user_id) --------------- *)
(* a mutant: the foreign key has no ON DELETE CASCADE *)
delete_user_nocascade(user) ==
    Out(users \ {user}, sessions, [Ok("delete_user") EXCEPT !.uid = user.id])

(* sessions.user_id REFERENCES users(id) ON DELETE CASCADE: the rows of    *)
(* the deleted user go with it                                             *)
delete_user(user) ==
    Out(users \ {user}, { s \in sessions : s.user_id # user.id },
        [Ok("delete_user") EXCEPT !.uid = user.id])

(* --------------------- routers/tasks.py -------------------------------- *)
(* A row of the tasks table; current_user is the User get_current_user    *)
(* returned.                                                              *)
TitleInputs == { "Buy milk", "Call Bo" }

(* TaskUpdate with exclude_unset: the title and completed, each given or  *)
(* not                                                                    *)
UpdateInputs ==
    [title : {Nil, "Call Bo"}, has_completed : BOOLEAN, completed : BOOLEAN]
        \ { d \in [title : {Nil, "Call Bo"}, has_completed : BOOLEAN,
                    completed : BOOLEAN] : ~d.has_completed /\ d.completed }

SortInputs == { "created_at", "due_date" }

TaskIds == 1..MaxTasks

TaskOut(ts, r, body) == [tasks |-> ts, ret |-> r, body |-> body]

task_by_id(ts, task_id) == { t \in ts : t.id = task_id }

(* lines 70-136; Task has no due_date column, so sorting by it raises     *)
get_tasks(current_user, has_completed, completed, sort_by) ==
    LET r == [Ok("get_tasks") EXCEPT !.uid = current_user.id] IN
    IF sort_by = "due_date"
    THEN TaskOut(tasks, [r EXCEPT !.status = "500", !.msg = "AttributeError"], {})
    ELSE TaskOut(tasks, [r EXCEPT !.status = "200"],
                 { t \in tasks : /\ t.user_id = current_user.id
                                 /\ has_completed => t.completed = completed })

(* lines 171-182 *)
get_task(current_user, task_id) ==
    LET r == [Ok("get_task") EXCEPT !.uid = current_user.id, !.tid = task_id]
        found == task_by_id(tasks, task_id)
    IN  IF found = {} \/ \E t \in found : t.user_id # current_user.id
        THEN TaskOut(tasks, [r EXCEPT !.status = "404", !.msg = "Task not found"], {})
        ELSE TaskOut(tasks, [r EXCEPT !.status = "200"], found)

(* lines 230-250: TaskCreate has no due_date, reading it raises before    *)
(* the row is built                                                       *)
create_task(current_user, title) ==
    TaskOut(tasks, [Ok("create_task") EXCEPT !.uid = current_user.id,
                                            !.status = "500",
                                            !.msg = "AttributeError"], {})

(* chatbot.py create_task_function: the row is committed, then reading    *)
(* task.due_date raises                                                   *)
create_task_function(user_id, title) ==
    LET row == [id |-> nextTid, user_id |-> user_id, title |-> title,
                completed |-> FALSE, updated_at |-> now]
    IN  TaskOut(tasks \cup {row},
                [Ok("create_task_function") EXCEPT !.uid = user_id,
                                                   !.tid = nextTid,
                                                   !.status = "AttributeError"],
                {row})

(* a mutant: any task that exists is updated *)
update_task_noowner(current_user, task_id, update_data) ==
    LET r == [Ok("update_task") EXCEPT !.uid = current_user.id, !.tid = task_id]
        found == task_by_id(tasks, task_id)
    IN  IF found = {}
        THEN TaskOut(tasks, [r EXCEPT !.status = "404", !.msg = "Task not found"], {})
        ELSE
        LET task == CHOOSE t \in found : TRUE IN
        IF update_data.has_completed /\ update_data.completed
        THEN TaskOut(tasks, [r EXCEPT !.status = "500", !.msg = "AttributeError"], {})
        ELSE
        LET row == [task EXCEPT
                      !.title = IF update_data.title # Nil THEN update_data.title ELSE @,
                      !.completed = IF update_data.has_completed
                                    THEN update_data.completed ELSE @,
                      !.updated_at = now]
        IN  TaskOut((tasks \ {task}) \cup {row}, [r EXCEPT !.status = "200"], {row})

(* lines 292-356; Task has no is_recurring, so a request that sets        *)
(* completed to true raises before anything is written                    *)
update_task(current_user, task_id, update_data) ==
    LET r == [Ok("update_task") EXCEPT !.uid = current_user.id, !.tid = task_id]
        found == task_by_id(tasks, task_id)
    IN  IF found = {} \/ \E t \in found : t.user_id # current_user.id
        THEN TaskOut(tasks, [r EXCEPT !.status = "404", !.msg = "Task not found"], {})
        ELSE
        LET task == CHOOSE t \in found : TRUE IN
        IF update_data.has_completed /\ update_data.completed
        THEN TaskOut(tasks, [r EXCEPT !.status = "500", !.msg = "AttributeError"], {})
        ELSE
        LET row == [task EXCEPT
                      !.title = IF update_data.title # Nil THEN update_data.title ELSE @,
                      !.completed = IF update_data.has_completed
                                    THEN update_data.completed ELSE @,
                      !.updated_at = now]
        IN  TaskOut((tasks \ {task}) \cup {row}, [r EXCEPT !.status = "200"], {row})

(* lines 386-399 *)
delete_task(current_user, task_id) ==
    LET r == [Ok("delete_task") EXCEPT !.uid = current_user.id, !.tid = task_id]
        found == task_by_id(tasks, task_id)
    IN  IF found = {} \/ \E t \in found : t.user_id # current_user.id
        THEN TaskOut(tasks, [r EXCEPT !.status = "404", !.msg = "Task not found"], {})
        ELSE TaskOut(tasks \ found, [r EXCEPT !.status = "204"], {})

(* ------------------ cli/todo_cli (InMemoryRepository) ----------------- *)
(* A due date is a day number; NoDue is None, BadDue a string that is no  *)
(* ISO date.                                                              *)
NoDue == -1

BadDue == -2

VALID_PRIORITIES == { "low", "medium", "high" }

VALID_RECURRENCE == { "daily", "weekly", "monthly" }

CliTitleInputs == { <<"t", "e", "a">>, <<" ", "t", "e", "a", " ">>, <<" ">> }

CliPriorityInputs == { "medium", "urgent" }

DueInputs == { NoDue, BadDue, 1 }

PatternInputs == { Nil, "daily", "monthly", "yearly" }

RepoOut(r, status, task_id) == [repo |-> r, status |-> status, id |-> task_id]

(* Task.to_dict: the fields under their JSON keys *)
to_dict(task) ==
    [id |-> task.id, title |-> task.title, completed |-> task.completed,
     priority |-> task.priority, due_date |-> task.due_date,
     recurring |-> task.recurring,
     recurrence_pattern |-> task.recurrence_pattern]

(* sorted(self.tasks.values(), key=lambda t: t.id) *)
RECURSIVE sorted_by_id(_)
sorted_by_id(ts) ==
    IF ts = {} THEN <<>>
    ELSE LET first == CHOOSE t \in ts : \A o \in ts : t.id <= o.id
         IN  <<first>> \o sorted_by_id(ts \ {first})

(* _save: next_id and the tasks, as dictionaries in the order of their    *)
(* ids, go to the file                                                    *)
save(r) ==
    LET listed == sorted_by_id(r.tasks) IN
    [r EXCEPT !.file = [next_id |-> r.next_id,
                        tasks |-> [i \in 1..Len(listed) |-> to_dict(listed[i])]]]

(* Task.__post_init__: Nil when the fields pass *)
task_validate(title, priority, due_date, recurring, recurrence_pattern) ==
    IF Len(strip(title)) < 1 THEN "Title is required."
    ELSE IF priority \notin VALID_PRIORITIES THEN "Priority must be one of"
    ELSE IF due_date = BadDue THEN "Due date must be in ISO format"
    ELSE IF recurring /\ recurrence_pattern \notin VALID_RECURRENCE
    THEN "Recurrence pattern must be one of"
    ELSE Nil

(* a mutant: the completed flag is not read back *)
from_dict_uncompleted(data) ==
    IF task_validate(data.title, data.priority, data.due_date, data.recurring,
                     data.recurrence_pattern) # Nil
    THEN {}
    ELSE { [id |-> data.id, title |-> strip(data.title),
            completed |-> FALSE, priority |-> data.priority,
            due_date |-> data.due_date, recurring |-> data.recurring,
            recurrence_pattern |-> data.recurrence_pattern] }

(* Task.from_dict: the Task built from a dictionary, through              *)
(* __post_init__; no Task where that raises ValueError                    *)
from_dict(data) ==
    IF task_validate(data.title, data.priority, data.due_date, data.recurring,
                     data.recurrence_pattern) # Nil
    THEN {}
    ELSE { [id |-> data.id, title |-> strip(data.title),
            completed |-> data.completed, priority |-> data.priority,
            due_date |-> data.due_date, recurring |-> data.recurring,
            recurrence_pattern |-> data.recurrence_pattern] }

(* InMemoryRepository(file_path): __init__ and _load.  Invalid entries    *)
(* are skipped, and of two entries with one id the later stays.           *)
load(f) ==
    IF f = NoFile THEN EmptyRepo
    ELSE [tasks |-> UNION { { t \in from_dict(f.tasks[i]) :
                                \A j \in (i + 1)..Len(f.tasks) :
                                    \A o \in from_dict(f.tasks[j]) : o.id # t.id }
                            : i \in 1..Len(f.tasks) },
          next_id |-> f.next_id,
          file |-> f]

(* lines 88-131 *)
add(r, title, priority, due_date, recurring, recurrence_pattern) ==
    IF task_validate(title, priority, due_date, recurring, recurrence_pattern) # Nil
    THEN RepoOut(r, "ValueError", NoId)
    ELSE LET task == [id |-> r.next_id, title |-> strip(title),
                      completed |-> FALSE, priority |-> priority,
                      due_date |-> due_date, recurring |-> recurring,
                      recurrence_pattern |-> recurrence_pattern]
         IN  RepoOut(save([r EXCEPT !.tasks = @ \cup {task},
                                    !.next_id = @ + 1]),
                     "ok", task.id)

(* an argument that is None *)
NoTitle == <<"None">>

(* the arguments of update: each field given or None *)
CliUpdateInputs ==
    { [title |-> <<"m", "i", "l", "k", " ">>, priority |-> Nil, due_date |-> NoDue,
       has_recurring |-> FALSE, recurring |-> FALSE, recurrence_pattern |-> Nil],
      [title |-> <<" ">>, priority |-> "high", due_date |-> NoDue,
       has_recurring |-> FALSE, recurring |-> FALSE, recurrence_pattern |-> Nil],
      [title |-> NoTitle, priority |-> "high", due_date |-> 1,
       has_recurring |-> TRUE, recurring |-> TRUE, recurrence_pattern |-> Nil],
      [title |-> NoTitle, priority |-> Nil, due_date |-> BadDue,
       has_recurring |-> FALSE, recurring |-> FALSE, recurrence_pattern |-> Nil],
      [title |-> NoTitle, priority |-> Nil, due_date |-> NoDue,
       has_recurring |-> TRUE, recurring |-> FALSE, recurrence_pattern |-> "weekly"] }

(* lines 222-270 *)
update(r, task_id, u) ==
    IF \A t \in r.tasks : t.id # task_id
    THEN RepoOut(r, "KeyError", task_id)
    ELSE LET task == CHOOSE t \in r.tasks : t.id = task_id
             title == IF u.title # NoTitle THEN u.title ELSE task.title
             priority == IF u.priority # Nil THEN u.priority ELSE task.priority
             due_date == IF u.due_date # NoDue THEN u.due_date ELSE task.due_date
             recurring == IF u.has_recurring THEN u.recurring ELSE task.recurring
             recurrence_pattern == IF u.recurrence_pattern # Nil
                                   THEN u.recurrence_pattern
                                   ELSE task.recurrence_pattern
         IN  IF task_validate(title, priority, due_date, recurring,
                              recurrence_pattern) # Nil
             THEN RepoOut(r, "ValueError", task_id)
             ELSE LET updated_task ==
                          [id |-> task.id, title |-> strip(title),
                           completed |-> task.completed, priority |-> priority,
                           due_date |-> due_date, recurring |-> recurring,
                           recurrence_pattern |-> recurrence_pattern]
                  IN  RepoOut(save([r EXCEPT !.tasks = (@ \ {task})
                                                        \cup {updated_task}]),
                              "ok", task_id)

(* lines 297-336: the repository after the next occurrence was added, or  *)
(* as it was when none can be made                                        *)
create_next_recurrence(r, task) ==
    IF task.due_date = NoDue \/ task.recurrence_pattern = Nil THEN r
    ELSE IF task.recurrence_pattern \notin VALID_RECURRENCE THEN r
    ELSE LET next_due ==
                 IF task.recurrence_pattern = "daily" THEN task.due_date + 1
                 ELSE IF task.recurrence_pattern = "weekly" THEN task.due_date + 7
                 ELSE task.due_date + 30
         IN  add(r, task.title, task.priority, next_due, TRUE,
                 task.recurrence_pattern).repo

(* lines 272-295 *)
complete(r, task_id) ==
    IF \A t \in r.tasks : t.id # task_id
    THEN RepoOut(r, "KeyError", task_id)
    ELSE LET task == CHOOSE t \in r.tasks : t.id = task_id
             done == [task EXCEPT !.completed = TRUE]
             marked == [r EXCEPT !.tasks = (@ \ {task}) \cup {done}]
         IN  IF task.recurring /\ task.recurrence_pattern # Nil
                /\ task.due_date # NoDue
             THEN RepoOut(save(create_next_recurrence(marked, done)), "ok", task_id)
             ELSE RepoOut(save(marked), "ok", task_id)

(* a mutant: deleting a task gives its id back *)
delete_rewind(r, task_id) ==
    IF \A t \in r.tasks : t.id # task_id
    THEN RepoOut(r, "KeyError", task_id)
    ELSE RepoOut(save([r EXCEPT !.tasks = { t \in @ : t.id # task_id },
                                !.next_id = @ - 1]),
                 "ok", task_id)

(* lines 338-351 *)
delete(r, task_id) ==
    IF \A t \in r.tasks : t.id # task_id
    THEN RepoOut(r, "KeyError", task_id)
    ELSE RepoOut(save([r EXCEPT !.tasks = { t \in @ : t.id # task_id }]),
                 "ok", task_id)

(* one more call, within the bound on the length of a history *)
Step == steps < MaxSteps /\ steps' = steps + 1

Apply(out) ==
    /\ Step
    /\ users' = out.users
    /\ sessions' = out.sessions
    /\ ret' = out.ret
    /\ nextUid' = IF out.users \subseteq users THEN nextUid ELSE nextUid + 1
    /\ nextSid' = IF \A s \in out.sessions : \E o \in sessions : o.id = s.id
                  THEN nextSid ELSE nextSid + 1

(* The tokens a client can present: those of the stored Sessions, those   *)
(* the last call took or returned, and a string that is no token.         *)
Tokens ==
    ({ s.token : s \in sessions } \cup { s.refresh_token : s \in sessions }
        \cup { ret.token, ret.access, ret.refresh, Garbage }) \ {NoToken}

UserIds == 1..MaxUsers

Signup ==
    \E email \in EmailInputs, password \in PasswordInputs,
       full_name \in NameInputs, salt \in Salts :
        /\ nextUid <= MaxUsers
        /\ Apply(signup(email, password, full_name, salt))
        /\ UNCHANGED <<now, ticks, inflight, tasks, nextTid, repo>>

Signin ==
    \E email \in EmailInputs, password \in PasswordInputs,
       remember_me \in BOOLEAN, client \in ClientInputs :
        /\ nextSid <= MaxSessions
        /\ Apply(signin(email, password, remember_me, client))
        /\ UNCHANGED <<now, ticks, inflight, tasks, nextTid, repo>>

Signout ==
    \E token \in Tokens :
        /\ Apply(signout(token))
        /\ UNCHANGED <<now, ticks, inflight, tasks, nextTid, repo>>

RefreshAccessToken ==
    \E token \in Tokens :
        /\ Apply(refresh_access_token(token))
        /\ UNCHANGED <<now, ticks, inflight, tasks, nextTid, repo>>

ChangePassword ==
    \E user_id \in UserIds, current_password \in PasswordInputs,
       new_password \in PasswordInputs, salt \in Salts :
        /\ Apply(change_password(user_id, current_password, new_password, salt))
        /\ UNCHANGED <<now, ticks, inflight, tasks, nextTid, repo>>

UpdateProfile ==
    \E user_id \in UserIds, p \in ProfileInputs :
        /\ Apply(update_profile(user_id, p.full_name, p.avatar_url, p.timezone,
                                p.language))
        /\ UNCHANGED <<now, ticks, inflight, tasks, nextTid, repo>>

(* tasks.user_id is declared ON DELETE CASCADE as well *)
DeleteUser ==
    \E user \in users :
        /\ Apply(delete_user(user))
        /\ tasks' = { t \in tasks : t.user_id # user.id }
        /\ UNCHANGED <<now, ticks, inflight, nextTid, repo>>

SendVerificationEmail ==
    \E u \in users :
        /\ Apply(send_verification_email(u.id))
        /\ UNCHANGED <<now, ticks, inflight, tasks, nextTid, repo>>

VerifyEmailWithToken ==
    \E token \in Tokens :
        /\ Apply(verify_email_with_token(token))
        /\ UNCHANGED <<now, ticks, inflight, tasks, nextTid, repo>>

VerifyEmail ==
    \E user_id \in UserIds :
        /\ Apply(verify_email(user_id))
        /\ UNCHANGED <<now, ticks, inflight, tasks, nextTid, repo>>

ForgotPassword ==
    \E email \in EmailInputs :
        /\ Apply(forgot_password(email))
        /\ UNCHANGED <<now, ticks, inflight, tasks, nextTid, repo>>

ResetPassword ==
    \E token \in Tokens, new_password \in PasswordInputs, salt \in Salts :
        /\ Apply(reset_password(token, new_password, salt))
        /\ UNCHANGED <<now, ticks, inflight, tasks, nextTid, repo>>

GetCurrentUser ==
    \E token \in Tokens \cup {NoToken} :
        /\ Apply(get_current_user(token))
        /\ UNCHANGED <<now, ticks, inflight, tasks, nextTid, repo>>

(* hash_password(password) under the installed build of bcrypt *)
HashPassword ==
    \E password \in HashInputs, build \in BcryptBuilds :
        /\ ret.build \in {Nil, build}
        /\ Step
        /\ steps < Len(bcrypt_gensalt)
        /\ LET hashed == bcrypt_hashpw(build, password, bcrypt_gensalt[steps + 1])
           IN  ret' = [Ok("hash_password") EXCEPT
                         !.password = password, !.build = build,
                         !.hashed = hashed,
                         !.status = IF hashed = NoHash THEN "ValueError" ELSE "ok"]
        /\ UNCHANGED <<users, sessions, now, ticks, nextUid, nextSid, inflight, tasks, nextTid, repo>>

(* verify_password(plain_password, hashed) for the digest just made *)
VerifyPassword ==
    \E plain_password \in HashInputs :
        /\ ret.hashed # NoHash
        /\ Step
        /\ ret' = [ret EXCEPT
                     !.op = "verify_password", !.plain = plain_password,
                     !.status = bcrypt_checkpw(ret.build, plain_password,
                                               ret.hashed)]
        /\ UNCHANGED <<users, sessions, now, ticks, nextUid, nextSid, inflight, tasks, nextTid, repo>>

Tick ==
    \E d \in TickSteps :
        /\ ticks < MaxTicks
        /\ Step
        /\ now' = now + d
        /\ ticks' = ticks + 1
        /\ ret' = [ret EXCEPT !.op = "tick"]
        /\ UNCHANGED <<users, sessions, nextUid, nextSid, inflight, tasks, nextTid, repo>>

(* ------------------------ /api/tasks ---------------------------------- *)
ApplyTasks(out) ==
    /\ Step
    /\ tasks' = out.tasks
    /\ ret' = out.ret
    /\ nextTid' = IF \E t \in out.tasks : t.id = nextTid
                  THEN nextTid + 1 ELSE nextTid
    /\ UNCHANGED <<users, sessions, now, ticks, nextUid, nextSid, inflight, repo>>

GetTasks ==
    \E current_user \in users, has_completed \in BOOLEAN,
       completed \in BOOLEAN, sort_by \in SortInputs :
        ApplyTasks(get_tasks(current_user, has_completed, completed, sort_by))

GetTask ==
    \E current_user \in users, task_id \in TaskIds :
        ApplyTasks(get_task(current_user, task_id))

CreateTask ==
    \E current_user \in users, title \in TitleInputs :
        ApplyTasks(create_task(current_user, title))

CreateTaskFunction ==
    \E current_user \in users, title \in TitleInputs :
        /\ nextTid <= MaxTasks
        /\ ApplyTasks(create_task_function(current_user.id, title))

UpdateTask ==
    \E current_user \in users, task_id \in TaskIds, update_data \in UpdateInputs :
        ApplyTasks(update_task(current_user, task_id, update_data))

DeleteTask ==
    \E current_user \in users, task_id \in TaskIds :
        ApplyTasks(delete_task(current_user, task_id))

(* ---------------------- the CLI repository ---------------------------- *)
ApplyRepo(op, out) ==
    /\ Step
    /\ repo' = out.repo
    /\ ret' = [Ok(op) EXCEPT !.status = out.status, !.tid = out.id]
    /\ UNCHANGED <<users, sessions, now, ticks, nextUid, nextSid, inflight,
                   tasks, nextTid>>

RepoIds == 1..MaxRepoTasks

RepoAdd ==
    \E title \in CliTitleInputs, priority \in CliPriorityInputs,
       due_date \in DueInputs, recurring \in BOOLEAN,
       recurrence_pattern \in PatternInputs :
        /\ repo.next_id <= MaxRepoTasks
        /\ ApplyRepo("add", add(repo, title, priority, due_date, recurring,
                                recurrence_pattern))

RepoComplete ==
    \E task_id \in RepoIds :
        /\ repo.next_id <= MaxRepoTasks
        /\ ApplyRepo("complete", complete(repo, task_id))

RepoUpdate ==
    \E task_id \in RepoIds, u \in CliUpdateInputs :
        ApplyRepo("update", update(repo, task_id, u))

RepoDelete ==
    \E task_id \in RepoIds :
        ApplyRepo("delete", delete(repo, task_id))

(* --------------- signup as two steps of one request ------------------ *)
(* lines 52-82: validate, pre-check and build the row; the commit is a   *)
(* later step, so that other requests run in between.                    *)
Procs == 1..MaxInflight

SignupCheck ==
    \E pid \in Procs, email \in EmailInputs, password \in PasswordInputs,
       full_name \in NameInputs, salt \in Salts :
        LET r == [Ok("signup:check") EXCEPT !.email = email, !.uid = pid]
            bad == signup_validate(email, password, full_name)
        IN  /\ \A q \in inflight : q.pid # pid
            /\ Step
            /\ IF bad # Nil
               THEN /\ ret' = [r EXCEPT !.status = "ValidationError", !.msg = bad]
                    /\ inflight' = inflight
               ELSE IF signup_exists(users, email)
               THEN /\ ret' = [r EXCEPT !.status = "ConflictError",
                                        !.msg = "Email already registered"]
                    /\ inflight' = inflight
               ELSE /\ ret' = [r EXCEPT !.status = "pending"]
                    /\ inflight' = inflight \cup
                          { [pid |-> pid, email |-> email, password |-> password,
                             full_name |-> full_name, salt |-> salt] }
            /\ UNCHANGED <<users, sessions, now, ticks, nextUid, nextSid, tasks, nextTid, repo>>

SignupCommit ==
    \E q \in inflight :
        LET r == [Ok("signup:commit") EXCEPT !.email = q.email]
            out == signup_commit(users,
                       new_user(nextUid, q.email, q.password, q.full_name, q.salt), r)
        IN  /\ Step
            /\ users' = out.users
            /\ ret' = out.ret
            /\ nextUid' = IF out.users = users THEN nextUid ELSE nextUid + 1
            /\ inflight' = inflight \ {q}
            /\ UNCHANGED <<sessions, now, ticks, nextSid, tasks, nextTid, repo>>

(* --------------- signin as two steps of one request ------------------ *)
(* lines 119-152: the SELECT of the User, the password check and the     *)
(* tokens; the INSERT of the Session commits in a later step (lines      *)
(* 154-168), so that other requests run in between.                      *)
SigninCheck ==
    \E pid \in Procs, email \in EmailInputs, password \in PasswordInputs,
       remember_me \in BOOLEAN, client \in ClientInputs :
        LET r == [Ok("signin:check") EXCEPT !.email = email,
                                           !.password = password]
            found == get_user_by_email(users, email)
        IN  /\ \A q \in inflight : q.pid # pid
            /\ Step
            /\ IF found = {}
               THEN /\ ret' = signin_unknown(r)
                    /\ inflight' = inflight
               ELSE LET user == CHOOSE u \in found : TRUE IN
                    IF ~verify_password(password, user.hashed_password)
                    THEN /\ ret' = [r EXCEPT !.status = "UnauthorizedError",
                                             !.msg = "Invalid email or password"]
                         /\ inflight' = inflight
                    ELSE /\ ret' = [r EXCEPT !.status = "pending", !.uid = user.id]
                         /\ inflight' = inflight \cup
                               { [pid |-> pid, user |-> user, password |-> password,
                                  access_token |->
                                      create_access_token(
                                          [EmptyData EXCEPT !.sub = str_uuid(user.id),
                                                            !.email = user.email],
                                          remember_me, now),
                                  refresh_token |->
                                      create_access_token(
                                          [EmptyData EXCEPT !.sub = str_uuid(user.id),
                                                            !.type = "refresh"],
                                          TRUE, now),
                                  expires_at |-> now + session_expires_delta(remember_me),
                                  client |-> client] }
            /\ UNCHANGED <<users, sessions, now, ticks, nextUid, nextSid, tasks,
                           nextTid, repo>>

(* the INSERT is refused when the users row is gone (foreign key) or a    *)
(* token is already stored (unique)                                       *)
SigninCommit ==
    \E q \in inflight :
        LET r == [Ok("signin:commit") EXCEPT !.email = q.user.email,
                                            !.password = q.password,
                                            !.uid = q.user.id]
            session == new_session(nextSid, q.user, q.access_token,
                                   q.refresh_token, q.expires_at, q.client, now)
            written == /\ get_user_by_id(users, q.user.id) # {}
                       /\ SessionWriteOk(sessions, session)
        IN  /\ Step
            /\ nextSid <= MaxSessions
            /\ sessions' = IF written THEN sessions \cup {session} ELSE sessions
            /\ nextSid' = IF written THEN nextSid + 1 ELSE nextSid
            /\ ret' = IF written
                      THEN [r EXCEPT !.access = q.access_token,
                                     !.refresh = q.refresh_token]
                      ELSE [r EXCEPT !.status = "IntegrityError"]
            /\ inflight' = inflight \ {q}
            /\ UNCHANGED <<users, now, ticks, nextUid, tasks, nextTid, repo>>

NextConc ==
    \/ SignupCheck
    \/ SignupCommit

SpecConc == Init /\ [][NextConc]_vars

Next ==
    \/ Signup
    \/ Signin
    \/ Signout
    \/ RefreshAccessToken
    \/ ChangePassword
    \/ SendVerificationEmail
    \/ VerifyEmailWithToken
    \/ VerifyEmail
    \/ ForgotPassword
    \/ ResetPassword
    \/ GetCurrentUser
    \/ Tick

Spec == Init /\ [][Next]_vars

(* ------------------------- the profile ------------------------------- *)
(* full_name, avatar_url, timezone and language are read by no operation *)
(* but update_profile, so it runs with the calls that create Users and   *)
(* Sessions and set email_verified.                                      *)
NextProfile ==
    \/ Signup
    \/ Signin
    \/ VerifyEmail
    \/ UpdateProfile

SpecProfile == Init /\ [][NextProfile]_vars

(* --------------------- the email as login key ------------------------ *)
(* the operations that take an email, with the clock                     *)
NextEmail ==
    \/ Signup
    \/ Signin
    \/ ForgotPassword
    \/ Tick

SpecEmail == Init /\ [][NextEmail]_vars

(* ------------------- users and their sessions ------------------------ *)
(* the calls that insert rows, the deletion of a users row, the clock    *)
NextCascade ==
    \/ Signup
    \/ Signin
    \/ DeleteUser
    \/ Tick

SpecCascade == Init /\ [][NextCascade]_vars

(* ----------------------- password hashing ---------------------------- *)
NextHash ==
    \/ HashPassword
    \/ VerifyPassword

SpecHash == Init /\ [][NextHash]_vars

(* --------------------------- the tasks ------------------------------- *)
NextTasks ==
    \/ Signup
    \/ GetTasks
    \/ GetTask
    \/ CreateTask
    \/ CreateTaskFunction
    \/ UpdateTask
    \/ DeleteTask

SpecTasks == Init /\ [][NextTasks]_vars

(* ----------------------- the CLI repository -------------------------- *)
NextRepo ==
    \/ RepoAdd
    \/ RepoUpdate
    \/ RepoComplete
    \/ RepoDelete

SpecRepo == Init /\ [][NextRepo]_vars

(* ----------------------- password reset ------------------------------ *)
NextReset ==
    \/ Signup
    \/ Signin
    \/ ForgotPassword
    \/ ResetPassword
    \/ Tick

SpecReset == Init /\ [][NextReset]_vars

(* ------------- signin in flight while the password changes ----------- *)
NextRace ==
    \/ Signup
    \/ SigninCheck
    \/ SigninCommit
    \/ ChangePassword

SpecRace == Init /\ [][NextRace]_vars

(* ------------------------- revocation -------------------------------- *)
(* the operations that delete Sessions, with those that create the Users  *)
(* and the Sessions                                                       *)
NextRevoke ==
    \/ Signup
    \/ Signin
    \/ Signout
    \/ ChangePassword

SpecRevoke == Init /\ [][NextRevoke]_vars

(***************************************************************************)
(* The claims.  NormalForm, ValidSignupInput, HasPassword and SameEmail    *)
(* are the specification's notions, stated apart from the code's helpers.  *)
(***************************************************************************)
NormalForm(e) == strip(lower(e))

ValidSignupInput(email, password, full_name) ==
    /\ Contains(NormalForm(email), "@")
    /\ Len(password) >= 8
    /\ Len(strip(full_name)) >= 2

Registered(e) == LET n == NormalForm(e) IN { u \in users : u.email = n }

HasPassword(u, p) == u.hashed_password.plain = p

(* C1: refresh_access_token with the refresh token of a stored, unexpired  *)
(* Session succeeds and rotates that Session (the row then holds the       *)
(* returned pair); with a refresh token that matches no stored Session it  *)
(* fails with UnauthorizedError.                                           *)
C1_Claim ==
    [][ret'.op = "refresh_access_token" =>
        IF \E s \in sessions : s.refresh_token = ret'.token /\ s.expires_at >= now
        THEN /\ ret'.status = "ok"
             /\ \E s \in sessions' : /\ s.token = ret'.access
                                     /\ s.refresh_token = ret'.refresh
        ELSE ret'.status = "UnauthorizedError"]_vars

C3_Claim ==
    [][ret'.op \in {"signout", "change_password", "reset_password"} =>
        \A s \in sessions :
            (\A o \in sessions' : o.id # s.id) =>
                get_current_user(s.token)'.ret.status = "401"]_vars

(* C4: after a successful signin the access token decodes to the user with *)
(* purpose access, the refresh token decodes to the user with purpose      *)
(* refresh, and refresh_access_token takes the refresh token and rejects   *)
(* the access token.                                                       *)
C4_Claim ==
    ret.op = "signin" /\ ret.status = "ok" =>
        LET a == decode_access_token(ret.access, now)
            r == decode_access_token(ret.refresh, now)
        IN  /\ a.type = "access" /\ a.sub = str_uuid(ret.uid)
            /\ r.type = "refresh" /\ r.sub = str_uuid(ret.uid)
            /\ refresh_access_token(ret.access).ret.status = "UnauthorizedError"
            /\ refresh_access_token(ret.refresh).ret.status = "ok"

(* C5: reset_password rejects a token minted for purpose verify and        *)
(* verify_email_with_token rejects a token minted for purpose reset, with  *)
(* UnauthorizedError (reset_password given a new password of 8 or more     *)
(* characters), and neither call changes a user or a session.              *)
C5_Theorem ==
    \A u \in users, new_password \in PasswordInputs, salt \in Salts :
        LET viaReset == reset_password(create_verification_token(u.id, "verify"),
                                       new_password, salt)
            viaVerify == verify_email_with_token(
                             create_verification_token(u.id, "reset"))
        IN  /\ viaReset.ret.status # "ok"
            /\ Len(new_password) >= 8 => viaReset.ret.status = "UnauthorizedError"
            /\ viaReset.users = users /\ viaReset.sessions = sessions
            /\ viaVerify.ret.status = "UnauthorizedError"
            /\ viaVerify.users = users /\ viaVerify.sessions = sessions

(* C5 witness: reset_password has just refused a fresh verify token *)
C5_Witness ==
    /\ ret.op = "reset_password" /\ ret.status = "UnauthorizedError"
    /\ Len(ret.password) >= 8
    /\ \E u \in users : ret.token = create_verification_token(u.id, "verify")
    /\ sessions # {}

(* C6: reset_password given the token forgot_password has just returned    *)
(* for a registered user and a new password of 8 or more characters        *)
(* succeeds: the stored hash then verifies the new password and the user   *)
(* has no Session left.                                                    *)
C6_Claim ==
    [][/\ ret.op = "forgot_password" /\ ret.token # NoToken
       /\ ret'.op = "reset_password" /\ ret'.token = ret.token
       /\ Len(ret'.password) >= 8
       => /\ ret'.status = "ok"
          /\ \E u \in users' : u.id = ret.uid /\ HasPassword(u, ret'.password)
          /\ \A s \in sessions' : s.user_id # ret.uid]_vars

(* C7: verify_email_with_token given the token just minted for purpose     *)
(* verify sets email_verified and returns the user (writing nothing when   *)
(* the user is verified already); a string that is no token, or a token    *)
(* minted for reset, yields UnauthorizedError.                             *)
C7_Claim ==
    [][ret'.op = "verify_email_with_token" =>
        /\ ret.op = "send_verification_email" /\ ret'.token = ret.token =>
              /\ ret'.status = "ok"
              /\ \E u \in users' : u.id = ret.uid /\ u.email_verified
              /\ (\E u \in users : u.id = ret.uid /\ u.email_verified)
                    => users' = users
        /\ ret'.token = Garbage => ret'.status = "UnauthorizedError"
        /\ ret.op = "forgot_password" /\ ret.token # NoToken /\ ret'.token = ret.token
              => ret'.status = "UnauthorizedError"]_vars

(* C8: a signup with a valid email, password and full name creates one     *)
(* unverified User under the normalized email when no User has that        *)
(* email, and otherwise fails with ConflictError and creates no User; no   *)
(* two Users share an email.                                               *)
C8_Theorem ==
    /\ \A u, v \in users : u.email = v.email => u = v
    /\ \A email \in EmailInputs, password \in PasswordInputs,
          full_name \in NameInputs, salt \in Salts :
          ValidSignupInput(email, password, full_name) =>
              LET out == signup(email, password, full_name, salt) IN
              IF Registered(email) = {}
              THEN /\ out.ret.status = "ok"
                   /\ \E u \in out.users :
                         /\ u \notin users
                         /\ out.users = users \cup {u}
                         /\ u.email = NormalForm(email)
                         /\ u.email_verified = FALSE
              ELSE /\ out.ret.status = "ConflictError"
                   /\ out.users = users

(* C8 witness: a signup under another spelling of a registered email has   *)
(* just been refused                                                       *)
C8_Witness ==
    /\ ret.op = "signup" /\ ret.status = "ConflictError"
    /\ ret.email # NormalForm(ret.email)
    /\ Registered(ret.email) # {}

(* C9: when signups commit after passing the existence pre-check, a commit *)
(* whose email a User already has surfaces ConflictError and adds no User, *)
(* any other commit adds one User; no two Users ever share an email.       *)
C9_Theorem ==
    /\ [](\A u, v \in users : u.email = v.email => u = v)
    /\ [][\A q \in inflight :
            q \notin inflight' =>
                IF Registered(q.email) # {}
                THEN ret'.status = "ConflictError" /\ users' = users
                ELSE /\ ret'.status = "ok"
                     /\ Cardinality(users') = Cardinality(users) + 1]_vars

(* C9 witness: the second of two commits for one email has lost *)
C9_Witness ==
    /\ ret.op = "signup:commit" /\ ret.status = "ConflictError"
    /\ Registered(ret.email) # {}
    /\ inflight = {}

(* C10: signin for an email no User has and signin with a wrong password   *)
(* for a registered email both fail with UnauthorizedError and the same    *)
(* message, and neither creates a Session or returns a token.              *)
C10_Theorem ==
    LET Fails(e, p) ==
            \/ Registered(e) = {}
            \/ \E u \in Registered(e) : ~HasPassword(u, p)
        Outcomes ==
            { LET out == signin(c[1], c[2], remember_me, client)
              IN  [status |-> out.ret.status, msg |-> out.ret.msg,
                   stored |-> out.sessions # sessions,
                   token |-> out.ret.access # NoToken \/ out.ret.refresh # NoToken] :
                c \in { x \in EmailInputs \X PasswordInputs : Fails(x[1], x[2]) },
                remember_me \in BOOLEAN, client \in ClientInputs }
    IN  /\ \A o \in Outcomes :
              o.status = "UnauthorizedError" /\ ~o.stored /\ ~o.token
        /\ Cardinality({ <<o.status, o.msg>> : o \in Outcomes }) = 1

(* C10 witness: a signin with a wrong password for a registered email has  *)
(* just failed while a Session of that user is stored                      *)
C10_Witness ==
    /\ ret.op = "signin" /\ ret.status = "UnauthorizedError"
    /\ Registered(ret.email) # {}
    /\ \E s \in sessions : \E u \in Registered(ret.email) : s.user_id = u.id

(* n days and n hours on the model's clock *)
Days(n) == n * 24 * 60

Hours(n) == n * 60

(* C11: a successful signin adds exactly one Session: it belongs to the    *)
(* user, holds the two returned tokens and expires at now + 7 days, or at  *)
(* now + 30 days with remember_me; the access token expires with the same  *)
(* tier and the refresh token always at now + 30 days.                     *)
C11_Theorem ==
    \A email \in EmailInputs, password \in PasswordInputs,
       remember_me \in BOOLEAN, client \in ClientInputs :
        LET out == signin(email, password, remember_me, client)
            tier == IF remember_me THEN Days(30) ELSE Days(7)
        IN  out.ret.status = "ok" =>
                \E s \in out.sessions :
                    /\ \A o \in sessions : o.id # s.id
                    /\ out.sessions = sessions \cup {s}
                    /\ Cardinality(out.sessions) = Cardinality(sessions) + 1
                    /\ \E u \in Registered(email) :
                          s.user_id = u.id /\ out.ret.uid = u.id
                    /\ s.token = out.ret.access
                    /\ s.refresh_token = out.ret.refresh
                    /\ s.expires_at = now + tier
                    /\ decode_access_token(out.ret.access, now).exp = now + tier
                    /\ decode_access_token(out.ret.refresh, now).exp = now + Days(30)

(* C11 witness: a signin with remember_me has just stored its Session *)
C11_Witness ==
    /\ ret.op = "signin" /\ ret.status = "ok"
    /\ \E s \in sessions :
          /\ s.token = ret.access /\ s.refresh_token = ret.refresh
          /\ s.user_id = ret.uid
          /\ s.expires_at = now + Days(30)

(* C12: a token minted for purpose verify or reset expires 24 hours after  *)
(* it is issued: once more than 24 hours have passed it no longer decodes, *)
(* and verify_email_with_token and reset_password refuse it with           *)
(* UnauthorizedError.                                                      *)
C12_Claim ==
    [][/\ ret.op \in {"send_verification_email", "forgot_password"}
       /\ ret.token # NoToken
       /\ now' > ret.token.iat + Hours(24)
       => /\ ret.token.exp = ret.token.iat + Hours(24)
          /\ decode_access_token(ret.token, now') = NoPayload
          /\ verify_email_with_token(ret.token)'.ret.status = "UnauthorizedError"
          /\ \A salt \in Salts :
                reset_password(ret.token, "newpassword456", salt)'.ret.status
                    = "UnauthorizedError"]_vars

(* C13: signout returns true and deletes the Session exactly when a        *)
(* Session with that access token is stored, and returns false and changes *)
(* nothing otherwise; it never raises, and a second signout with the same  *)
(* token returns false.                                                    *)
C13_Theorem ==
    [][ret'.op = "signout" =>
        /\ ret'.status \in {"ok", "false"}
        /\ users' = users
        /\ IF \E s \in sessions : s.token = ret'.token
           THEN /\ ret'.status = "ok"
                /\ sessions' = { s \in sessions : s.token # ret'.token }
                /\ Cardinality(sessions') = Cardinality(sessions) - 1
           ELSE /\ ret'.status = "false"
                /\ sessions' = sessions
        /\ \A token \in {ret'.token} :
              /\ signout(token)'.ret.status = "false"
              /\ signout(token)'.sessions = sessions']_vars

(* C13 witness: signup, signin, signout and a second signout with the same *)
(* token, which found nothing                                              *)
C13_Witness ==
    /\ ret.op = "signout" /\ ret.status = "false"
    /\ ret.token.signed
    /\ steps = 4 /\ nextSid = 2 /\ sessions = {} /\ now = 0

(* C14: refresh_access_token given the refresh token of a stored Session   *)
(* whose expires_at has passed deletes that Session and fails with         *)
(* UnauthorizedError.                                                      *)
C14_Claim ==
    [][ret'.op = "refresh_access_token" =>
        \A s \in sessions :
            s.refresh_token = ret'.token /\ s.expires_at < now =>
                /\ ret'.status = "UnauthorizedError"
                /\ \A o \in sessions' : o.id # s.id]_vars

C17_Claim ==
    \A email \in EmailInputs, password \in PasswordInputs,
       remember_me \in BOOLEAN, client \in ClientInputs :
        (\E u \in Registered(email) : HasPassword(u, password)) =>
            LET out == signin(email, password, remember_me, client) IN
            /\ out.ret.status = "ok"
            /\ Cardinality(out.sessions) = Cardinality(sessions) + 1

(* no two Sessions of ss share an access token or a refresh token *)
TokensDistinct(ss) ==
    \A s, o \in ss :
        s # o => s.token # o.token /\ s.refresh_token # o.refresh_token

(* C18: the access tokens of the stored Sessions are pairwise distinct and *)
(* so are their refresh tokens, now and after any signin; a signin the     *)
(* store rejects as a duplicate leaves the Sessions as they were.          *)
C18_Theorem ==
    /\ TokensDistinct(sessions)
    /\ \A email \in EmailInputs, password \in PasswordInputs,
          remember_me \in BOOLEAN, client \in ClientInputs :
          LET out == signin(email, password, remember_me, client) IN
          /\ TokensDistinct(out.sessions)
          /\ out.ret.status = "IntegrityError" =>
                /\ out.sessions = sessions
                /\ \E s \in sessions : \E u \in Registered(email) :
                      s.user_id = u.id /\ s.created_at = now

(* C18 witness: a second signin in the clock second of the first was       *)
(* rejected by the store and the first Session is stored alone             *)
C18_Witness ==
    /\ ret.op = "signin" /\ ret.status = "IntegrityError"
    /\ Cardinality(sessions) = 1
    /\ \E s \in sessions : s.user_id = ret.uid /\ s.created_at = now

(* C19: update_profile replaces exactly the provided fields among          *)
(* full_name (trimmed), avatar_url, timezone and language and leaves the   *)
(* omitted ones, the email, the password hash, email_verified, the other   *)
(* Users and all Sessions unchanged; a provided full_name of fewer than 2  *)
(* characters after trimming yields ValidationError and a missing user     *)
(* NotFoundError, and neither changes anything.                            *)
C19_Theorem ==
    \A user_id \in UserIds,
       p \in [full_name : ProfileNameInputs, avatar_url : AvatarInputs,
              timezone : TimezoneInputs, language : LanguageInputs] :
        LET full_name == p.full_name
            avatar_url == p.avatar_url
            timezone == p.timezone
            language == p.language
            out == update_profile(user_id, full_name, avatar_url, timezone, language)
            old == { u \in users : u.id = user_id }
            v(u) == [id |-> u.id, email |-> u.email,
                     hashed_password |-> u.hashed_password,
                     email_verified |-> u.email_verified,
                     full_name |-> IF full_name # NoName
                                   THEN strip(full_name) ELSE u.full_name,
                     avatar_url |-> IF avatar_url # Nil
                                    THEN avatar_url ELSE u.avatar_url,
                     timezone |-> IF timezone # Nil THEN timezone ELSE u.timezone,
                     language |-> IF language # Nil THEN language ELSE u.language]
        IN  /\ out.sessions = sessions
            /\ IF old = {}
               THEN out.ret.status = "NotFoundError" /\ out.users = users
               ELSE IF full_name # NoName /\ Len(strip(full_name)) < 2
               THEN out.ret.status = "ValidationError" /\ out.users = users
               ELSE /\ out.ret.status = "ok"
                    /\ \E u \in old : out.users = (users \ {u}) \cup {v(u)}

(* C19 witness: an update has just set some fields of a signed-in user and *)
(* left another at its earlier value                                       *)
C19_Witness ==
    /\ ret.op = "update_profile" /\ ret.status = "ok"
    /\ \E u \in users :
          /\ u.id = ret.uid
          /\ u.timezone # Nil /\ u.avatar_url = Nil
          /\ u.full_name = <<"A", "l">>
          /\ \E s \in sessions : s.user_id = u.id

(* C20: change_password fails with NotFoundError for a missing user, else  *)
(* with UnauthorizedError for a wrong current password, else with          *)
(* ValidationError for a new password of fewer than 8 characters; on each  *)
(* failure the Users (so the password hash) and the Sessions are unchanged.*)
C20_Theorem ==
    \A user_id \in UserIds, current_password \in PasswordInputs,
       new_password \in PasswordInputs, salt \in Salts :
        LET out == change_password(user_id, current_password, new_password, salt)
            old == { u \in users : u.id = user_id }
            expected ==
                IF old = {} THEN "NotFoundError"
                ELSE IF \E u \in old : ~HasPassword(u, current_password)
                THEN "UnauthorizedError"
                ELSE IF Len(new_password) < 8 THEN "ValidationError"
                ELSE "ok"
        IN  /\ out.ret.status = expected
            /\ expected # "ok" => out.users = users /\ out.sessions = sessions

(* C20 witness: a change to a too short new password with a wrong current  *)
(* password was refused as unauthorized, the user's Session still stored   *)
C20_Witness ==
    /\ ret.op = "change_password" /\ ret.status = "UnauthorizedError"
    /\ Len(ret.password) < 8
    /\ \E u \in users : u.id = ret.uid /\ \E s \in sessions : s.user_id = u.id

(* C21: once change_password has succeeded, and until the password is      *)
(* changed again, every signin of that user with the new password succeeds *)
(* and adds a Session, and every signin with another password (the old one *)
(* among them) fails with UnauthorizedError.                               *)
C21_Claim ==
    [][/\ ret.op = "change_password" /\ ret.status = "ok"
       /\ ret'.op \notin {"change_password", "reset_password"}
       => \A u \in users : \A email \in EmailInputs :
             u.id = ret.uid /\ NormalForm(email) = u.email =>
                \A password \in PasswordInputs, remember_me \in BOOLEAN,
                   client \in ClientInputs :
                    /\ LET out == signin(email, password, remember_me, client) IN
                       IF password = ret.password
                       THEN /\ out.ret.status = "ok"
                            /\ Cardinality(out.sessions) = Cardinality(sessions) + 1
                       ELSE out.ret.status = "UnauthorizedError"
                    /\ IF password = ret.password
                       THEN signin(email, password, remember_me, client)'.ret.status
                                = "ok"
                       ELSE signin(email, password, remember_me, client)'.ret.status
                                = "UnauthorizedError"]_vars

(* C22: forgot_password never raises and changes no User and no Session;   *)
(* it returns no token when no User has the normalized email, and          *)
(* otherwise a token that decodes to purpose reset and to that user.       *)
C22_Claim ==
    \A email \in EmailInputs :
        LET out == forgot_password(email) IN
        /\ out.ret.status = "ok"
        /\ out.users = users /\ out.sessions = sessions
        /\ IF Registered(email) = {}
           THEN out.ret.token = NoToken
           ELSE /\ out.ret.token # NoToken
                /\ LET payload == decode_access_token(out.ret.token, now) IN
                   /\ payload.type = "reset"
                   /\ \E u \in Registered(email) : payload.sub = str_uuid(u.id)

(* C23: with the default settings the response of POST /forgot-password    *)
(* (status code and body) is the same for a registered and an unregistered *)
(* email.                                                                  *)
C23_Claim ==
    \A e1, e2 \in { e \in EmailInputs : Contains(e, "@") } :
        Registered(e1) # {} /\ Registered(e2) = {} =>
            forgot_password_endpoint(e1) = forgot_password_endpoint(e2)

(* C24: a newly signed-up User has email_verified false; email_verified    *)
(* turns from false to true only in a verify_email or                      *)
(* verify_email_with_token call, never turns back to false, and is left    *)
(* as it was by every other operation, update_profile included.            *)
C24_Theorem ==
    /\ [][/\ \A u \in users' :
                (\A o \in users : o.id # u.id) => ~u.email_verified
          /\ \A o \in users : \A u \in users' :
                o.id = u.id =>
                    /\ o.email_verified => u.email_verified
                    /\ u.email_verified # o.email_verified =>
                          ret'.op \in {"verify_email", "verify_email_with_token"}
         ]_vars
    /\ [](\A user_id \in UserIds, p \in ProfileInputs :
            LET out == update_profile(user_id, p.full_name, p.avatar_url,
                                      p.timezone, p.language)
            IN  \A o \in users : \A u \in out.users :
                    o.id = u.id => u.email_verified = o.email_verified)

(* C24 witness: the password of a verified user was changed, and the user  *)
(* is still verified                                                       *)
C24_Witness ==
    /\ ret.op = "change_password" /\ ret.status = "ok"
    /\ \E u \in users : u.id = ret.uid /\ u.email_verified

(* C25: every stored email is trimmed and lower-cased, and emails that     *)
(* differ only in case and surrounding whitespace resolve to the same User *)
(* in get_user_by_email, signin, forgot_password and signup.               *)
C25_Theorem ==
    /\ \A u \in users : u.email = NormalForm(u.email)
    /\ \A e1, e2 \in EmailInputs :
          NormalForm(e1) = NormalForm(e2) =>
            /\ get_user_by_email(users, e1) = get_user_by_email(users, e2)
            /\ get_user_by_email(users, e1) = Registered(e1)
            /\ \A password \in PasswordInputs, remember_me \in BOOLEAN,
                  client \in ClientInputs :
                  LET o1 == signin(e1, password, remember_me, client)
                      o2 == signin(e2, password, remember_me, client)
                  IN  /\ o1.ret.status = o2.ret.status
                      /\ o1.ret.uid = o2.ret.uid
                      /\ o1.sessions = o2.sessions
            /\ forgot_password(e1).ret.token = forgot_password(e2).ret.token
            /\ \A password \in PasswordInputs, full_name \in NameInputs,
                  salt \in Salts :
                  LET o1 == signup(e1, password, full_name, salt)
                      o2 == signup(e2, password, full_name, salt)
                  IN  /\ o1.ret.status = o2.ret.status
                      /\ o1.users = o2.users

(* C25 witness: a signin succeeded with an email written in another case   *)
(* and with surrounding blanks than the stored one                         *)
C25_Witness ==
    /\ ret.op = "signin" /\ ret.status = "ok"
    /\ ret.email # NormalForm(ret.email)
    /\ \E u \in users : u.id = ret.uid /\ u.email = NormalForm(ret.email)

(* C26: every stored Session belongs to a stored User, and the deletion of *)
(* a User leaves no Session of that user.                                  *)
C26_Theorem ==
    /\ \A s \in sessions : \E u \in users : u.id = s.user_id
    /\ \A user \in users :
          LET out == delete_user(user) IN
          /\ user \notin out.users
          /\ \A s \in out.sessions : s.user_id # user.id
          /\ \A s \in sessions : s.user_id # user.id => s \in out.sessions

(* C26 witness: of two Users the one who had signed in was deleted, and    *)
(* the Session went with the row                                           *)
C26_Witness ==
    /\ ret.op = "delete_user"
    /\ nextSid > 1 /\ sessions = {}
    /\ users # {} /\ \A u \in users : u.id # ret.uid

(* C27: get_current_user answers 401 to a refresh, verify or reset token   *)
(* presented as the access token: to the refresh token of every stored     *)
(* Session, and to the token send_verification_email or forgot_password    *)
(* has just issued.                                                        *)
C27_Claim ==
    /\ \A s \in sessions :
          s.expires_at >= now =>
              get_current_user(s.refresh_token).ret.status = "401"
    /\ ret.op \in {"send_verification_email", "forgot_password"}
          /\ ret.token # NoToken
          => get_current_user(ret.token).ret.status = "401"

(* C28: hash_password returns a digest for every plaintext;                *)
(* verify_password(q, hash_password(p)) is true when q = p and false when  *)
(* q differs from p; and two hash_password calls on the same plaintext     *)
(* return different digests.                                               *)
C28_Claim ==
    /\ [](ret.op = "hash_password" => ret.status = "ok")
    /\ [](ret.op = "verify_password" =>
            ret.status = IF ret.plain = ret.password THEN "True" ELSE "False")
    /\ [][/\ ret'.op = "hash_password" /\ ret'.status = "ok"
          /\ ret.hashed # NoHash /\ ret'.password = ret.password
          => ret'.hashed # ret.hashed]_vars

(* C29: for a task of another user get_task, update_task and delete_task   *)
(* answer 404 and leave every task as it is, and get_tasks returns only    *)
(* tasks of the caller.                                                    *)
C29_Theorem ==
    \A current_user \in users :
        /\ \A task \in tasks :
              task.user_id # current_user.id =>
                /\ get_task(current_user, task.id).ret.status = "404"
                /\ get_task(current_user, task.id).body = {}
                /\ \A update_data \in UpdateInputs :
                      LET out == update_task(current_user, task.id, update_data)
                      IN  out.ret.status = "404" /\ out.tasks = tasks
                /\ LET out == delete_task(current_user, task.id)
                   IN  out.ret.status = "404" /\ out.tasks = tasks
        /\ \A has_completed, completed \in BOOLEAN, sort_by \in SortInputs :
              \A t \in get_tasks(current_user, has_completed, completed,
                                 sort_by).body :
                  t.user_id = current_user.id

(* C29 witness: an update of another user's task was answered 404 and the  *)
(* task is still stored                                                    *)
C29_Witness ==
    /\ ret.op = "update_task" /\ ret.status = "404"
    /\ \E t \in tasks : t.id = ret.tid /\ t.user_id # ret.uid
    /\ \E u \in users : u.id = ret.uid

(* C30: completing a task of the CLI repository that is already completed  *)
(* succeeds, leaves it completed and leaves the stored tasks and next_id   *)
(* as they were, for recurring tasks as for others.                        *)
C30_Claim ==
    \A t \in repo.tasks :
        t.completed =>
            LET out == complete(repo, t.id) IN
            /\ out.status = "ok"
            /\ \E d \in out.repo.tasks : d.id = t.id /\ d.completed
            /\ out.repo.tasks = repo.tasks
            /\ out.repo.next_id = repo.next_id

C32_Theorem ==
    \A token \in Tokens \cup {NoToken}, new_password \in PasswordInputs,
       salt \in Salts :
        LET out == reset_password(token, new_password, salt) IN
        /\ Len(new_password) < 8 => out.ret.status = "ValidationError"
        /\ out.ret.status \in {"ValidationError", "UnauthorizedError",
                                "NotFoundError"}
              => out.users = users /\ out.sessions = sessions

(* C32 witness: a reset with the token forgot_password issued for a stored *)
(* User and a too short password was refused with ValidationError          *)
C32_Witness ==
    /\ ret.op = "reset_password" /\ ret.status = "ValidationError"
    /\ Len(ret.password) < 8
    /\ ret.token # NoToken /\ ret.token.signed
    /\ \E u \in users : ret.token.sub = str_uuid(u.id)
    /\ sessions # {}

(* C33: signup checks the email format, then the password length, then the *)
(* length of the full name, then uniqueness: the first check an input      *)
(* fails decides the error, an input failing one of the first three gets   *)
(* ValidationError also when its email is registered, and a signup that    *)
(* ends in ValidationError or ConflictError leaves every User as it was.   *)
C33_Theorem ==
    \A email \in EmailInputs, password \in PasswordInputs,
       full_name \in NameInputs, salt \in Salts :
        LET out == signup(email, password, full_name, salt)
            expected ==
                IF ~Contains(NormalForm(email), "@")
                THEN <<"ValidationError", "Invalid email format">>
                ELSE IF Len(password) < 8
                THEN <<"ValidationError", "Password must be at least 8 characters">>
                ELSE IF Len(strip(full_name)) < 2
                THEN <<"ValidationError", "Full name must be at least 2 characters">>
                ELSE IF Registered(email) # {}
                THEN <<"ConflictError", "Email already registered">>
                ELSE <<"ok", Nil>>
        IN  /\ <<out.ret.status, out.ret.msg>> = expected
            /\ out.ret.status \in {"ValidationError", "ConflictError"}
                  => out.users = users /\ out.sessions = sessions

(* C33 witness: a signup under a registered email with a too short         *)
(* password was refused for the password, not for the email                *)
C33_Witness ==
    /\ ret.op = "signup" /\ ret.status = "ValidationError"
    /\ ret.msg = "Password must be at least 8 characters"
    /\ Registered(ret.email) # {}

C35_Claim ==
    [][\A q \in inflight :
          q \notin inflight' /\ sessions' # sessions =>
              \E u \in users : u.id = q.user.id /\ HasPassword(u, q.password)
      ]_vars

(* C36 is left unsettled: refresh_access_token rejects every token before *)
(* it reads a Session, so no refresh is ever in flight with a row read.   *)

C37_SubjectIsOwner(s) ==
    /\ s.token.sub = str_uuid(s.user_id)
    /\ s.refresh_token.sub = str_uuid(s.user_id)

(* C37: in every reachable state the access token and the refresh token   *)
(* of each stored Session carry the Session's user_id as their subject,   *)
(* and neither signin nor refresh_access_token, whatever its input,       *)
(* leaves a Session of which this is false.                               *)
C37_Theorem ==
    /\ \A s \in sessions : C37_SubjectIsOwner(s)
    /\ \A email \in EmailInputs, password \in PasswordInputs,
          remember_me \in BOOLEAN, client \in ClientInputs :
           \A s \in signin(email, password, remember_me, client).sessions :
               C37_SubjectIsOwner(s)
    /\ \A token \in Tokens :
           \A s \in refresh_access_token(token).sessions : C37_SubjectIsOwner(s)

C37_Witness ==
    /\ ret.op = "signin" /\ ret.status = "ok"
    /\ Cardinality(users) = 2
    /\ \E s \in sessions :
          /\ s.user_id = 2
          /\ s.token = ret.access /\ s.refresh_token = ret.refresh
          /\ ret.access.sub = str_uuid(2) /\ ret.refresh.sub = str_uuid(2)

(* what a password change for user U may touch: the Sessions of U and the *)
(* password hash of U                                                     *)
C38_Scoped(out, U) ==
    /\ out.sessions \subseteq sessions
    /\ { s \in out.sessions : s.user_id # U } = { s \in sessions : s.user_id # U }
    /\ { u \in out.users : u.id # U } = { u \in users : u.id # U }
    /\ Cardinality(out.users) = Cardinality(users)
    /\ \A u \in users : u.id = U =>
          \E v \in out.users :
              [v EXCEPT !.hashed_password = u.hashed_password] = u

C39_Theorem ==
    /\ [](\A user_id \in UserIds, p \in ProfileInputs :
             update_profile(user_id, p.full_name, p.avatar_url, p.timezone,
                            p.language).sessions = sessions)
    /\ [][LET created == \E s \in sessions' : \A o \in sessions : o.id # s.id
              removed == \E o \in sessions : \A s \in sessions' : s.id # o.id
              expired == /\ ret'.op = "refresh_access_token"
                         /\ ret'.status = "UnauthorizedError"
                         /\ ret'.msg = "Session expired"
          IN  /\ created => ret'.op = "signin" /\ ret'.status = "ok"
              /\ removed =>
                    \/ ret'.op \in {"signout", "change_password", "reset_password"}
                          /\ ret'.status = "ok"
                    \/ expired
              /\ ret'.op \in {"signup", "verify_email", "verify_email_with_token",
                               "send_verification_email", "forgot_password",
                               "get_current_user"}
                    => sessions' = sessions
              /\ ret'.status # "ok" /\ ~expired => sessions' = sessions
         ]_vars

C39_Witness ==
    /\ ret.op = "signout" /\ ret.status = "ok"
    /\ nextSid = 2
    /\ sessions = {}
    /\ \E u \in users : ret.token.sub = str_uuid(u.id)

(* C40: in the CLI repository every task has an id below next_id and no   *)
(* two tasks share an id; no call decreases next_id; a successful add     *)
(* gives the task the id next_id and raises next_id by one; and a task    *)
(* that a call stores under an id no stored task had gets an id that was  *)
(* not below next_id, so the id of a deleted task is never given again.   *)
C40_Theorem ==
    /\ [](/\ \A t \in repo.tasks : 1 <= t.id /\ t.id < repo.next_id
          /\ \A t1 \in repo.tasks, t2 \in repo.tasks : t1.id = t2.id => t1 = t2)
    /\ [][/\ repo'.next_id >= repo.next_id
          /\ \A t \in repo'.tasks :
                (\A o \in repo.tasks : o.id # t.id) =>
                    repo.next_id <= t.id /\ t.id < repo'.next_id
          /\ ret'.op = "add" /\ ret'.status = "ok" /\ repo' # repo =>
                /\ ret'.tid = repo.next_id
                /\ repo'.next_id = repo.next_id + 1
                /\ \E t \in repo'.tasks : t.id = repo.next_id
          /\ ret'.op \in {"delete", "update"} => repo'.next_id = repo.next_id
         ]_vars

C40_Witness ==
    /\ ret.op = "add" /\ ret.status = "ok" /\ ret.tid = 2
    /\ repo.next_id = 3
    /\ Cardinality(repo.tasks) = 1
    /\ \A t \in repo.tasks : t.id = 2

====
